---- MODULE Spec2Model ----
(***************************************************************************)
(* State-machine model of the cluster topology directory of               *)
(* src/db/topology.go: Cluster -> Database -> Frame / Slice ->             *)
(* FrameSliceIntersect (hash ring + fragments) -> Fragment -> Process.     *)
(*                                                                         *)
(* Pointers are modelled by position: a *Frame is its index in d.frames,   *)
(* a *Slice its index in d.slices, a *FrameSliceIntersect its index in     *)
(* d.frame_slice_intersects and a *Fragment the pair <<fsi index, index in *)
(* fsi.fragments>>.  Nothing is ever removed from these slices, so the     *)
(* index identifies the object for its whole life.  Index 0 is a pointer   *)
(* to an object that does not belong to this Database.                     *)
(*                                                                         *)
(* Strings that the code builds (decimal and hex renderings, ring keys)    *)
(* are sequences of ASCII codes.                                           *)
(***************************************************************************)
EXTENDS Integers, Sequences, FiniteSets, TLC

\* ------------------------------------------------------------------ bounds
\* Longest d.frames the sequential model builds.
MaxFrames == 2
\* Most Fragment objects in the Database of the sequential model.
MaxFragments == 2
\* Threads that call into the Cluster concurrently.
NumClusterThreads == 3
\* Threads that call into one Database concurrently.
NumDbThreads == 2
\* Most Fragment objects in the Database of the routing model.
MaxRouteFragments == 4
\* Bitmap ids range over 0..MaxBitmapId.
MaxBitmapId == 2
\* Size of the hash space the ring positions live in.
HashSpace == 256

\* Process objects that exist in the cluster.
NumProcesses == 2

\* Database names that callers pass.
DatabaseNames == {"x", "y"}
\* Frame names that callers pass.
FrameNames == {"default", "other"}
\* Fragment ids (util.SUUID) that callers pass.
FragmentIds == {10, 26}
\* Fragment ids of the routing model.
RouteFragmentIds == {1, 10, 26}
\* Bitmap filter values that callers pass.
Filters == {0, 1}
\* Slice ids that callers pass.
SliceIds == {0, 1}
BitmapIds == 0..MaxBitmapId

\* ------------------------------------------------------------------ errors
Nil == "nil"
FrameDoesNotExistError == "Frame does not exist."
InvalidFrameError == "Invalid frame."
SliceDoesNotExistError == "Slice does not exist."
FragmentDoesNotExistError == "Fragment does not exist."
FrameSliceIntersectDoesNotExistError == "FrameSliceIntersect does not exist."
ErrEmptyCircle == "empty circle"
DatabaseIsEmptyError == "Database is empty"

\* A nil *Fragment.
NilFragment == <<0, 0>>

VARIABLES
    databases,               \* Cluster.databases: set of <<name, *Database>>
    dbObjects,               \* every Database object allocated: seq of [Name]
    cmutex,                  \* Cluster.mutex: 0 free, else the holding thread
    creturned,               \* <<name, *Database>> pairs GetOrCreateDatabase returned
    frames,                  \* Database.frames
    slices,                  \* Database.slices
    frame_slice_intersects,  \* Database.frame_slice_intersects
    mutex,                   \* Database.mutex: 0 free, else the holding thread
    ret,                     \* the last call of the sequential model and its result
    pc,                      \* per thread: the statement it is at
    loc                      \* per thread: arguments and locals of its call

vars == <<databases, dbObjects, cmutex, creturned, frames, slices,
          frame_slice_intersects, mutex, ret, pc, loc>>
clusterVars == <<databases, dbObjects, cmutex, creturned>>
dbVars == <<frames, slices, frame_slice_intersects>>

\* ----------------------------------------------------------------- strings
Min(S) == CHOOSE x \in S : \A y \in S : x <= y

RECURSIVE Digits(_, _)
\* The digits of n in the given base, most significant first.
Digits(n, base) ==
    IF n < base THEN <<n>> ELSE Append(Digits(n \div base, base), n % base)

\* ASCII code of one digit: '0'..'9' = 48..57, 'a'..'f' = 97..102.
DigitChar(d) == IF d < 10 THEN 48 + d ELSE 87 + d

\* strconv.Itoa / fmt.Sprintf("%d", n)
Itoa(n) == [i \in 1..Len(Digits(n, 10)) |-> DigitChar(Digits(n, 10)[i])]

\* util.SUUID_to_Hex: the identifier in lower-case hexadecimal.
SUUID_to_Hex(id) == [i \in 1..Len(Digits(id, 16)) |-> DigitChar(Digits(id, 16)[i])]

CharDigit(c) == IF c >= 97 THEN c - 87 ELSE c - 48

RECURSIVE ParseHex(_, _)
ParseHex(s, acc) ==
    IF s = <<>> THEN acc ELSE ParseHex(Tail(s), acc * 16 + CharDigit(Head(s)))

\* util.Hex_to_SUUID: parses a hexadecimal string back to the identifier.
Hex_to_SUUID(s) == ParseHex(s, 0)

\* ------------------------------------------------- consistent-hash ring
\* The ring is github.com/stathat/consistent: a map from ring positions to
\* member names (circle), the member set, and the replica count.
NumberOfReplicas == 16

RECURSIVE hashFold(_, _)
hashFold(s, h) ==
    IF s = <<>> THEN h ELSE hashFold(Tail(s), (h * 31 + Head(s)) % HashSpace)

\* Consistent.hashKey: position of a key on the ring.
hashKey(key) == hashFold(key, 0)

\* Consistent.eltKey: the key of replica idx of member elt.
eltKey(elt, idx) == Itoa(idx) \o elt

\* A ring pointer that was not assigned yet.
NilRing == [alloc |-> FALSE, NumberOfReplicas |-> 0, circle |-> {}, members |-> {}]

\* consistent.New(): an empty ring, 20 replicas per member by default.
consistentNew ==
    [alloc |-> TRUE, NumberOfReplicas |-> 20, circle |-> {}, members |-> {}]

\* Positions taken by the replicas of elt.
eltPositions(ring, elt) ==
    {hashKey(eltKey(elt, i)) : i \in 0..(ring.NumberOfReplicas - 1)}

\* Consistent.Add: circle[hashKey(eltKey(elt, i))] = elt for every replica
\* (a position already taken is overwritten), members[elt] = true.
consistentAdd(ring, elt) ==
    LET taken == eltPositions(ring, elt) IN
    [ring EXCEPT
        !.circle = {e \in ring.circle : e[1] \notin taken}
                   \cup {<<p, elt>> : p \in taken},
        !.members = ring.members \cup {elt}]

circlePositions(ring) == {e[1] : e \in ring.circle}

\* Consistent.search: the first position above key, wrapping to the lowest.
consistentSearch(ring, key) ==
    LET sortedHashes == circlePositions(ring) IN
    IF \E p \in sortedHashes : p > key
    THEN Min({p \in sortedHashes : p > key})
    ELSE Min(sortedHashes)

\* Consistent.Get: the member owning name, ErrEmptyCircle on an empty ring.
consistentGet(ring, name) ==
    IF ring.circle = {}
    THEN [val |-> <<>>, err |-> ErrEmptyCircle]
    ELSE LET i == consistentSearch(ring, hashKey(name)) IN
         [val |-> (CHOOSE e \in ring.circle : e[1] = i)[2], err |-> Nil]

\* ---------------------------------------------------------------- frames
\* config.GetStringArrayDefault("supported_frames", []string{"default"})
supported_frames == <<"default">>

stringInSlice(a, list) == \E i \in 1..Len(list) : list[i] = a

IsValidFrame(name) == stringInSlice(name, supported_frames)

\* getFrame without the allow-list check.
getFrameIn_NoValidation(fs, name) ==
    IF \E i \in 1..Len(fs) : fs[i].name = name
    THEN [val |-> Min({i \in 1..Len(fs) : fs[i].name = name}), err |-> Nil]
    ELSE [val |-> 0, err |-> FrameDoesNotExistError]

\* Database.getFrame over a frame list fs: the first frame with that name.
getFrameIn(fs, name) ==
    IF ~IsValidFrame(name)
    THEN [val |-> 0, err |-> InvalidFrameError]
    ELSE IF \E i \in 1..Len(fs) : fs[i].name = name
         THEN [val |-> Min({i \in 1..Len(fs) : fs[i].name = name}), err |-> Nil]
         ELSE [val |-> 0, err |-> FrameDoesNotExistError]

getFrame(name) == getFrameIn(frames, name)

\* ---------------------------------------------------------------- slices
\* Database.getSlice: the first slice with that id.
getSlice(slice_id) ==
    IF \E i \in 1..Len(slices) : slices[i].id = slice_id
    THEN [val |-> Min({i \in 1..Len(slices) : slices[i].id = slice_id}), err |-> Nil]
    ELSE [val |-> 0, err |-> SliceDoesNotExistError]

\* Width of a slice in profile ids.
SLICE_WIDTH == 1048576

\* GetSlice that rounds up.
GetSlice_RoundUp(profile_id) == (profile_id + SLICE_WIDTH - 1) \div SLICE_WIDTH

\* GetSlice(profile_id): int(profile_id / SLICE_WIDTH), the unsigned division.
GetSlice(profile_id) == profile_id \div SLICE_WIDTH

\* Database.GetSliceForProfile
GetSliceForProfile(profile_id) == getSlice(GetSlice(profile_id))

\* NumSlices that takes a Database with one Slice for empty.
NumSlices_OffByOne ==
    IF Len(slices) < 2
    THEN [val |-> 0, err |-> DatabaseIsEmptyError]
    ELSE [val |-> Len(slices), err |-> Nil]

\* Database.NumSlices
NumSlices ==
    IF Len(slices) < 1
    THEN [val |-> 0, err |-> DatabaseIsEmptyError]
    ELSE [val |-> Len(slices), err |-> Nil]

\* ------------------------------------------------- frame-slice intersects
\* AddFrameSliceIntersect that builds the FSI and forgets to append it.
AddFrameSliceIntersect_NoAppend(fsis, frame, slice) == fsis

\* AddFrameSliceIntersect up to the append: the FSI is in the list, its
\* hashring pointer still nil.
fsiAppend(fsis, frame, slice) ==
    Append(fsis, [frame |-> frame, slice |-> slice, fragments |-> <<>>,
                  hashring |-> NilRing])

\* AddFrameSliceIntersect after the append: FSI x gets consistent.New() with
\* NumberOfReplicas = 16.
fsiNewRing(fsis, x) ==
    [fsis EXCEPT ![x].hashring =
        [consistentNew EXCEPT !.NumberOfReplicas = NumberOfReplicas]]

\* Database.AddFrameSliceIntersect: a new FSI with an empty ring of 16 replicas.
AddFrameSliceIntersect(fsis, frame, slice) ==
    fsiNewRing(fsiAppend(fsis, frame, slice), Len(fsis) + 1)

\* Database.GetFrameSliceIntersect over an FSI list: the first FSI of the pair.
GetFrameSliceIntersectIn(fsis, frame, slice) ==
    IF \E i \in 1..Len(fsis) : fsis[i].frame = frame /\ fsis[i].slice = slice
    THEN [val |-> Min({i \in 1..Len(fsis) :
                          fsis[i].frame = frame /\ fsis[i].slice = slice}),
          err |-> Nil]
    ELSE [val |-> 0, err |-> FrameSliceIntersectDoesNotExistError]

GetFrameSliceIntersect(frame, slice) ==
    GetFrameSliceIntersectIn(frame_slice_intersects, frame, slice)

RECURSIVE addFrameIntersects(_, _, _, _)
\* The loop of addFrame: an FSI of the new frame with slices k..n, in order.
addFrameIntersects(fsis, frame, k, n) ==
    IF k > n THEN fsis
    ELSE addFrameIntersects(AddFrameSliceIntersect(fsis, frame, k), frame, k + 1, n)

RECURSIVE addSliceIntersects(_, _, _, _)
\* The loop of addSlice: an FSI of the new slice with frames k..n, in order.
addSliceIntersects(fsis, slice, k, n) ==
    IF k > n THEN fsis
    ELSE addSliceIntersects(AddFrameSliceIntersect(fsis, k, slice), slice, k + 1, n)

\* GetFragment with the comparison inverted: the first fragment with another id.
GetFragment_WrongCompare(fsi, fragment_id) ==
    IF \E i \in 1..Len(fsi.fragments) : fsi.fragments[i].id # fragment_id
    THEN [val |-> Min({i \in 1..Len(fsi.fragments) :
                          fsi.fragments[i].id # fragment_id}),
          err |-> Nil]
    ELSE [val |-> 0, err |-> FragmentDoesNotExistError]

\* FrameSliceIntersect.GetFragment: index of the first fragment with that id.
GetFragment(fsi, fragment_id) ==
    IF \E i \in 1..Len(fsi.fragments) : fsi.fragments[i].id = fragment_id
    THEN [val |-> Min({i \in 1..Len(fsi.fragments) :
                          fsi.fragments[i].id = fragment_id}),
          err |-> Nil]
    ELSE [val |-> 0, err |-> FragmentDoesNotExistError]

\* AddFragment that appends the fragment and leaves the ring alone.
AddFragment_NoRing(fsi, fragment) ==
    [fsi EXCEPT !.fragments = Append(fsi.fragments, fragment)]

\* An append that starts the fragment list over with the new fragment.
appendFragment_Replace(fsi, fragment) ==
    [fsi EXCEPT !.fragments = <<fragment>>]

\* AddFragment, first statement: self.fragments = append(self.fragments, fragment)
appendFragment(fsi, fragment) ==
    [fsi EXCEPT !.fragments = Append(fsi.fragments, fragment)]

\* AddFragment, second statement: self.hashring.Add(util.SUUID_to_Hex(fragment.id))
ringAddFragment(fsi, fragment) ==
    [fsi EXCEPT !.hashring = consistentAdd(fsi.hashring, SUUID_to_Hex(fragment.id))]

\* AddFragment that also hands every older ring position to the first fragment.
AddFragment_Remap(fsi, fragment) ==
    LET a == ringAddFragment(appendFragment(fsi, fragment), fragment) IN
    IF fsi.fragments = <<>> THEN a
    ELSE [a EXCEPT !.hashring.circle =
             {<<e[1], IF e[2] = SUUID_to_Hex(fragment.id) THEN e[2]
                      ELSE SUUID_to_Hex(fsi.fragments[1].id)>> : e \in @}]

\* FrameSliceIntersect.AddFragment: append, then add the hex id to the ring.
AddFragment(fsi, fragment) ==
    ringAddFragment(appendFragment(fsi, fragment), fragment)

\* Database.getFragment
getFragment(frame, slice, fragment_id) ==
    IF GetFrameSliceIntersect(frame, slice).err # Nil
    THEN [val |-> NilFragment, err |-> GetFrameSliceIntersect(frame, slice).err]
    ELSE LET x == GetFrameSliceIntersect(frame, slice).val
             r == GetFragment(frame_slice_intersects[x], fragment_id)
         IN  [val |-> IF r.err = Nil THEN <<x, r.val>> ELSE NilFragment,
              err |-> r.err]

\* addFragment that adds the Fragment to every FSI of the frame.
addFragment_EverySlice(frame, slice, fragment_id) ==
    IF GetFrameSliceIntersect(frame, slice).err # Nil
    THEN frame_slice_intersects
    ELSE [x \in 1..Len(frame_slice_intersects) |->
             IF frame_slice_intersects[x].frame = frame
             THEN AddFragment(frame_slice_intersects[x],
                              [id |-> fragment_id, process |-> 0])
             ELSE frame_slice_intersects[x]]

\* Database.addFragment: the FSI list after the call (unchanged without FSI).
addFragment(frame, slice, fragment_id) ==
    IF GetFrameSliceIntersect(frame, slice).err # Nil
    THEN frame_slice_intersects
    ELSE LET x == GetFrameSliceIntersect(frame, slice).val
         IN  [frame_slice_intersects EXCEPT
                 ![x] = AddFragment(@, [id |-> fragment_id, process |-> 0])]

\* The *Fragment Database.addFragment returns: nil without FSI.
addFragmentResult(frame, slice, fragment_id) ==
    IF GetFrameSliceIntersect(frame, slice).err # Nil
    THEN NilFragment
    ELSE LET x == GetFrameSliceIntersect(frame, slice).val
         IN  <<x, Len(frame_slice_intersects[x].fragments) + 1>>

\* Database.GetFragmentForBitmap over a frame list fs and an FSI list fsis.
GetFragmentForBitmapIn(fs, fsis, slice, bitmap) ==
    LET fr == getFrameIn(fs, bitmap.FrameType) IN
    IF fr.err # Nil THEN [val |-> NilFragment, err |-> fr.err]
    ELSE
    LET x == GetFrameSliceIntersectIn(fsis, fr.val, slice) IN
    IF x.err # Nil THEN [val |-> NilFragment, err |-> x.err]
    ELSE
    LET g == consistentGet(fsis[x.val].hashring, Itoa(bitmap.Id)) IN
    IF g.err # Nil THEN [val |-> NilFragment, err |-> g.err]
    ELSE
    LET r == GetFragment(fsis[x.val], Hex_to_SUUID(g.val)) IN
    [val |-> IF r.err = Nil THEN <<x.val, r.val>> ELSE NilFragment, err |-> r.err]

\* Database.GetFragmentForBitmap
GetFragmentForBitmap(slice, bitmap) ==
    GetFragmentForBitmapIn(frames, frame_slice_intersects, slice, bitmap)

\* GetFragmentForFrameSlice that takes the length of the ring member for the id.
GetFragmentForFrameSlice_NoDecode(frame, slice) ==
    LET x == GetFrameSliceIntersect(frame, slice) IN
    IF x.err # Nil THEN [val |-> NilFragment, err |-> x.err]
    ELSE
    LET g == consistentGet(frame_slice_intersects[x.val].hashring, Itoa(0)) IN
    IF g.err # Nil THEN [val |-> NilFragment, err |-> g.err]
    ELSE
    LET r == GetFragment(frame_slice_intersects[x.val], Len(g.val)) IN
    [val |-> IF r.err = Nil THEN <<x.val, r.val>> ELSE NilFragment, err |-> r.err]

\* Database.GetFragmentForFrameSlice: the ring lookup of the fixed key "0".
GetFragmentForFrameSlice(frame, slice) ==
    LET x == GetFrameSliceIntersect(frame, slice) IN
    IF x.err # Nil THEN [val |-> NilFragment, err |-> x.err]
    ELSE
    LET g == consistentGet(frame_slice_intersects[x.val].hashring, Itoa(0)) IN
    IF g.err # Nil THEN [val |-> NilFragment, err |-> g.err]
    ELSE
    LET r == GetFragment(frame_slice_intersects[x.val], Hex_to_SUUID(g.val)) IN
    [val |-> IF r.err = Nil THEN <<x.val, r.val>> ELSE NilFragment, err |-> r.err]

\* Number of Fragment objects in the Database.
RECURSIVE countFragments(_, _)
countFragments(fsis, k) ==
    IF k > Len(fsis) THEN 0
    ELSE Len(fsis[k].fragments) + countFragments(fsis, k + 1)

\* ------------------------------------------------------------ sequential
\* The record of one call: its name, its arguments and what it returned.
Call(op, name, frame, slice, id, filter, val, err) ==
    [op |-> op, name |-> name, frame |-> frame, slice |-> slice, id |-> id,
     filter |-> filter, val |-> val, err |-> err]

NoCall == Call("none", "", 0, 0, 0, 0, <<0, 0>>, Nil)

FsiIdx == 1..Len(frame_slice_intersects)
FrameIdx == 1..Len(frames)
SliceIdx == 1..Len(slices)

\* Frame pointers a caller can hold: every frame of d.frames, and 0.
FramePtrs == 0..Len(frames)
SlicePtrs == 1..Len(slices)

\* Database.GetOrCreateFrame(name), the whole call under d.mutex.
GetOrCreateFrame(name) ==
    /\ mutex = 0
    /\ IF getFrame(name).err = Nil
       THEN /\ UNCHANGED dbVars
            /\ ret' = Call("GetOrCreateFrame", name, 0, 0, 0, 0,
                           <<getFrame(name).val, 0>>, Nil)
       ELSE /\ Len(frames) < MaxFrames
            /\ frames' = Append(frames, [name |-> name])
            /\ frame_slice_intersects' =
                   addFrameIntersects(frame_slice_intersects, Len(frames) + 1,
                                      1, Len(slices))
            /\ UNCHANGED slices
            /\ ret' = Call("GetOrCreateFrame", name, 0, 0, 0, 0,
                           <<Len(frames) + 1, 0>>, Nil)
    /\ UNCHANGED <<clusterVars, mutex, pc, loc>>

\* Database.GetOrCreateSlice(slice_id), the whole call under d.mutex.
GetOrCreateSlice(slice_id) ==
    /\ mutex = 0
    /\ IF getSlice(slice_id).err = Nil
       THEN /\ UNCHANGED dbVars
            /\ ret' = Call("GetOrCreateSlice", "", 0, 0, slice_id, 0,
                           <<getSlice(slice_id).val, 0>>, Nil)
       ELSE /\ slices' = Append(slices, [id |-> slice_id])
            /\ frame_slice_intersects' =
                   addSliceIntersects(frame_slice_intersects, Len(slices) + 1,
                                      1, Len(frames))
            /\ UNCHANGED frames
            /\ ret' = Call("GetOrCreateSlice", "", 0, 0, slice_id, 0,
                           <<Len(slices) + 1, 0>>, Nil)
    /\ UNCHANGED <<clusterVars, mutex, pc, loc>>

\* Database.GetOrCreateFragment(frame, slice, fragment_id), the whole call.
GetOrCreateFragment(frame, slice, fragment_id) ==
    /\ mutex = 0
    /\ IF getFragment(frame, slice, fragment_id).err = Nil
       THEN /\ UNCHANGED dbVars
            /\ ret' = Call("GetOrCreateFragment", "", frame, slice, fragment_id, 0,
                           getFragment(frame, slice, fragment_id).val, Nil)
       ELSE /\ frame_slice_intersects' = addFragment(frame, slice, fragment_id)
            /\ UNCHANGED <<frames, slices>>
            /\ ret' = Call("GetOrCreateFragment", "", frame, slice, fragment_id, 0,
                           addFragmentResult(frame, slice, fragment_id), Nil)
    /\ UNCHANGED <<clusterVars, mutex, pc, loc>>

\* A call of Database.GetFrameSliceIntersect(frame, slice).
CallGetFrameSliceIntersect(frame, slice) ==
    /\ ret' = Call("GetFrameSliceIntersect", "", frame, slice, 0, 0,
                   <<GetFrameSliceIntersect(frame, slice).val, 0>>,
                   GetFrameSliceIntersect(frame, slice).err)
    /\ UNCHANGED <<clusterVars, dbVars, mutex, pc, loc>>

\* A call of Database.GetFragmentForBitmap(slice, bitmap).
CallGetFragmentForBitmap(slice, bitmap) ==
    /\ ret' = Call("GetFragmentForBitmap", bitmap.FrameType, 0, slice, bitmap.Id,
                   bitmap.Filter,
                   GetFragmentForBitmap(slice, bitmap).val,
                   GetFragmentForBitmap(slice, bitmap).err)
    /\ UNCHANGED <<clusterVars, dbVars, mutex, pc, loc>>

\* A call of Database.GetFragmentForFrameSlice(frame, slice).
CallGetFragmentForFrameSlice(frame, slice) ==
    /\ ret' = Call("GetFragmentForFrameSlice", "", frame, slice, 0, 0,
                   GetFragmentForFrameSlice(frame, slice).val,
                   GetFragmentForFrameSlice(frame, slice).err)
    /\ UNCHANGED <<clusterVars, dbVars, mutex, pc, loc>>

Bitmaps == [Id : BitmapIds, FrameType : FrameNames, Filter : Filters]

Threads == {1, 2}

\* NewCluster(), and a Database{Name: name} with no frame and no slice.
Init ==
    /\ databases = {}
    /\ dbObjects = <<>>
    /\ cmutex = 0
    /\ creturned = {}
    /\ frames = <<>>
    /\ slices = <<>>
    /\ frame_slice_intersects = <<>>
    /\ mutex = 0
    /\ ret = NoCall
    /\ pc = [t \in Threads |-> "idle"]
    /\ loc = [t \in Threads |-> NoCall]

\* The call creates no Fragment beyond the cap.
fragmentRoom(cap, frame, slice, fragment_id) ==
    \/ getFragment(frame, slice, fragment_id).err = Nil
    \/ countFragments(frame_slice_intersects, 1) < cap

\* Sequential calls that build and inspect the structure of one Database.
Next ==
    \/ \E name \in FrameNames : GetOrCreateFrame(name)
    \/ \E id \in SliceIds : GetOrCreateSlice(id)
    \/ \E f \in FramePtrs, s \in SlicePtrs, id \in FragmentIds :
           fragmentRoom(MaxFragments, f, s, id) /\ GetOrCreateFragment(f, s, id)
    \/ \E f \in FramePtrs, s \in SlicePtrs : CallGetFrameSliceIntersect(f, s)

Spec == Init /\ [][Next]_vars

\* Sequential calls that fill the rings of the routable frame and look
\* bitmaps up in them.
RouteNext ==
    \/ \E name \in {n \in FrameNames : IsValidFrame(n)} : GetOrCreateFrame(name)
    \/ \E id \in SliceIds : GetOrCreateSlice(id)
    \/ \E f \in FrameIdx, s \in SlicePtrs, id \in RouteFragmentIds :
           fragmentRoom(MaxRouteFragments, f, s, id) /\ GetOrCreateFragment(f, s, id)
    \/ \E s \in SlicePtrs, b \in Bitmaps : CallGetFragmentForBitmap(s, b)
    \/ \E f \in FrameIdx, s \in SlicePtrs : CallGetFragmentForFrameSlice(f, s)

SpecRoute == Init /\ [][RouteNext]_vars

\* ---------------------------------------------------------- slice lookups
\* A call of Database.NumSlices().
CallNumSlices ==
    /\ ret' = Call("NumSlices", "", 0, 0, 0, 0, <<NumSlices.val, 0>>, NumSlices.err)
    /\ UNCHANGED <<clusterVars, dbVars, mutex, pc, loc>>

\* A call of Database.GetSliceForProfile(profile_id).
CallGetSliceForProfile(profile_id) ==
    /\ ret' = Call("GetSliceForProfile", "", 0, 0, profile_id, 0,
                   <<GetSliceForProfile(profile_id).val, 0>>,
                   GetSliceForProfile(profile_id).err)
    /\ UNCHANGED <<clusterVars, dbVars, mutex, pc, loc>>

\* Profile ids that callers pass: both ends of slice 0, the first ids of
\* slices 1 and 2.
ProfileIds == {0, SLICE_WIDTH - 1, SLICE_WIDTH, 2 * SLICE_WIDTH}

\* Sequential calls that register Frames and Slices, count the Slices and
\* look the Slice of a profile up.
SliceNext ==
    \/ \E name \in FrameNames : GetOrCreateFrame(name)
    \/ \E id \in SliceIds : GetOrCreateSlice(id)
    \/ CallNumSlices
    \/ \E p \in ProfileIds : CallGetSliceForProfile(p)

SpecSlices == Init /\ [][SliceNext]_vars

\* ------------------------------------------------------- fragment process
\* NewProcess(id): a Process with that id and no host or port yet.
NewProcess(id) == [id |-> id, host |-> "", port_tcp |-> 0, port_http |-> 0]

\* The Process objects callers built; a *Process is an index here, 0 is nil.
Processes == [p \in 1..NumProcesses |-> NewProcess(100 + p)]

\* A nil pointer dereferenced: the call panics instead of returning.
NilDereference == "panic: nil pointer dereference"

\* Every Fragment object of the Database.
AllFragments ==
    {f \in FsiIdx \X (1..MaxFragments) :
        f[2] <= Len(frame_slice_intersects[f[1]].fragments)}

\* The *Fragment values a caller holds: the Fragments of the Database and
\* what the last GetOrCreateFragment call returned (nil without an FSI).
HeldFragments ==
    AllFragments \cup (IF ret.op = "GetOrCreateFragment" THEN {ret.val} ELSE {})

\* The Fragment object behind a non-nil pointer.
fragmentAt(f) == frame_slice_intersects[f[1]].fragments[f[2]]

\* Fragment.SetProcess(process): f.process = process.
SetProcess(fragment, process) ==
    /\ frame_slice_intersects' =
           [frame_slice_intersects EXCEPT ![fragment[1]].fragments[fragment[2]].process =
               process]
    /\ ret' = Call("SetProcess", "", fragment[1], fragment[2], process, 0, fragment, Nil)
    /\ UNCHANGED <<clusterVars, frames, slices, mutex, pc, loc>>

\* Fragment.GetProcessId: self.process.id, a panic when self or self.process
\* is nil.
GetProcessId(fragment) ==
    IF fragment = NilFragment \/ fragmentAt(fragment).process = 0
    THEN [val |-> <<0, 0>>, err |-> NilDereference]
    ELSE [val |-> <<Processes[fragmentAt(fragment).process].id, 0>>, err |-> Nil]

\* Fragment.GetLocation: &Location{self.process.id, self.id}, a panic when
\* self or self.process is nil.
GetLocation(fragment) ==
    IF fragment = NilFragment \/ fragmentAt(fragment).process = 0
    THEN [val |-> <<0, 0>>, err |-> NilDereference]
    ELSE [val |-> <<Processes[fragmentAt(fragment).process].id,
                    fragmentAt(fragment).id>>,
          err |-> Nil]

\* A call of fragment.GetProcessId().
CallGetProcessId(fragment) ==
    /\ ret' = Call("GetProcessId", "", fragment[1], fragment[2], 0, 0,
                   GetProcessId(fragment).val, GetProcessId(fragment).err)
    /\ UNCHANGED <<clusterVars, dbVars, mutex, pc, loc>>

\* A call of fragment.GetLocation().
CallGetLocation(fragment) ==
    /\ ret' = Call("GetLocation", "", fragment[1], fragment[2], 0, 0,
                   GetLocation(fragment).val, GetLocation(fragment).err)
    /\ UNCHANGED <<clusterVars, dbVars, mutex, pc, loc>>

\* Sequential calls that create Fragments, assign Processes to them and ask
\* for the Process of a Fragment.
ProcessNext ==
    \/ \E name \in {n \in FrameNames : IsValidFrame(n)} : GetOrCreateFrame(name)
    \/ \E id \in SliceIds : GetOrCreateSlice(id)
    \/ \E f \in FramePtrs, s \in SlicePtrs, id \in FragmentIds :
           fragmentRoom(MaxFragments, f, s, id) /\ GetOrCreateFragment(f, s, id)
    \/ \E f \in AllFragments, p \in 1..NumProcesses : SetProcess(f, p)
    \/ \E f \in HeldFragments : CallGetProcessId(f)
    \/ \E f \in HeldFragments : CallGetLocation(f)

SpecProcess == Init /\ [][ProcessNext]_vars

\* --------------------------------------------------------------- cluster
ClusterThreads == 1..NumClusterThreads

\* Cluster.getDatabase: the registered Database of that name.
getDatabase(name) ==
    IF \E e \in databases : e[1] = name
    THEN [val |-> (CHOOSE e \in databases : e[1] = name)[2], err |-> Nil]
    ELSE [val |-> 0, err |-> "The database does not exist!"]

\* A thread enters Cluster.GetOrCreateDatabase(name).
GetOrCreateDatabase_Call(t, name) ==
    /\ pc[t] = "idle"
    /\ pc' = [pc EXCEPT ![t] = "c_lock"]
    /\ loc' = [loc EXCEPT ![t] = Call("GetOrCreateDatabase", name, 0, 0, 0, 0,
                                      <<0, 0>>, Nil)]
    /\ UNCHANGED <<clusterVars, dbVars, mutex, ret>>

\* GetOrCreateDatabase that goes on without taking c.mutex.
GetOrCreateDatabase_NoLock(t) ==
    /\ pc[t] = "c_lock"
    /\ pc' = [pc EXCEPT ![t] = "c_getDatabase"]
    /\ UNCHANGED <<clusterVars, dbVars, mutex, ret, loc>>

\* c.mutex.Lock(): waits until the mutex is free.
GetOrCreateDatabase_Lock(t) ==
    /\ pc[t] = "c_lock"
    /\ cmutex = 0
    /\ cmutex' = t
    /\ pc' = [pc EXCEPT ![t] = "c_getDatabase"]
    /\ UNCHANGED <<databases, dbObjects, creturned, dbVars, mutex, ret, loc>>

\* database, err := c.getDatabase(name); the found Database is the result.
GetOrCreateDatabase_Get(t) ==
    /\ pc[t] = "c_getDatabase"
    /\ IF getDatabase(loc[t].name).err = Nil
       THEN /\ loc' = [loc EXCEPT ![t].val = <<getDatabase(loc[t].name).val, 0>>]
            /\ pc' = [pc EXCEPT ![t] = "c_return"]
       ELSE /\ pc' = [pc EXCEPT ![t] = "c_addDatabase"]
            /\ UNCHANGED loc
    /\ UNCHANGED <<clusterVars, dbVars, mutex, ret>>

\* Cluster.addDatabase: a new Database{Name: name} stored under its name.
addDatabase(t) ==
    /\ pc[t] = "c_addDatabase"
    /\ dbObjects' = Append(dbObjects, [Name |-> loc[t].name])
    /\ databases' = {e \in databases : e[1] # loc[t].name}
                        \cup {<<loc[t].name, Len(dbObjects) + 1>>}
    /\ loc' = [loc EXCEPT ![t].val = <<Len(dbObjects) + 1, 0>>]
    /\ pc' = [pc EXCEPT ![t] = "c_return"]
    /\ UNCHANGED <<cmutex, creturned, dbVars, mutex, ret>>

\* The deferred c.mutex.Unlock() and the return to the caller.
GetOrCreateDatabase_Return(t) ==
    /\ pc[t] = "c_return"
    /\ cmutex' = IF cmutex = t THEN 0 ELSE cmutex
    /\ creturned' = creturned \cup {<<loc[t].name, loc[t].val[1]>>}
    /\ pc' = [pc EXCEPT ![t] = "idle"]
    /\ UNCHANGED <<databases, dbObjects, dbVars, mutex, ret, loc>>

InitCluster ==
    /\ databases = {}
    /\ dbObjects = <<>>
    /\ cmutex = 0
    /\ creturned = {}
    /\ frames = <<>>
    /\ slices = <<>>
    /\ frame_slice_intersects = <<>>
    /\ mutex = 0
    /\ ret = NoCall
    /\ pc = [t \in ClusterThreads |-> "idle"]
    /\ loc = [t \in ClusterThreads |-> NoCall]

ClusterNext ==
    \E t \in ClusterThreads :
        \/ \E name \in DatabaseNames : GetOrCreateDatabase_Call(t, name)
        \/ GetOrCreateDatabase_Lock(t)
        \/ GetOrCreateDatabase_Get(t)
        \/ addDatabase(t)
        \/ GetOrCreateDatabase_Return(t)

\* Threads calling Cluster.GetOrCreateDatabase concurrently.
SpecCluster == InitCluster /\ [][ClusterNext]_vars

\* ------------------------------------------------- concurrent Database
\* Threads that call into one Database concurrently.  Get-or-create calls
\* take d.mutex; the lookups take no lock (in GetFragmentForBitmap the
\* Lock/Unlock pair is commented out), so each of their reads of d.frames,
\* d.frame_slice_intersects, fsi.hashring and fsi.fragments is a step of its
\* own that sees whatever the writers have stored so far.
DbThreads == 1..NumDbThreads

\* Arguments and locals of a call in progress.
Local(op, name, frame, slice, id, val, err, fsi, k, frag_id) ==
    [op |-> op, name |-> name, frame |-> frame, slice |-> slice, id |-> id,
     val |-> val, err |-> err, fsi |-> fsi, k |-> k, frag_id |-> frag_id]

NoLocal == Local("none", "", 0, 0, 0, <<0, 0>>, Nil, 0, 0, 0)

\* Frames whose GetOrCreateFrame call returned: the *Frame values callers hold.
KnownFrames ==
    {f \in FrameIdx : \A t \in DbThreads :
        ~(loc[t].op = "GetOrCreateFrame" /\ loc[t].frame = f)}

\* Slices whose GetOrCreateSlice call returned: the *Slice values callers hold.
KnownSlices ==
    {x \in SliceIdx : \A t \in DbThreads :
        ~(loc[t].op = "GetOrCreateSlice" /\ loc[t].slice = x)}

\* A thread enters GetOrCreateFrame(name).
Enter_GetOrCreateFrame(t, name) ==
    /\ pc[t] = "idle"
    /\ pc' = [pc EXCEPT ![t] = "lock"]
    /\ loc' = [loc EXCEPT ![t] =
                  Local("GetOrCreateFrame", name, 0, 0, 0, <<0, 0>>, Nil, 0, 0, 0)]
    /\ UNCHANGED <<clusterVars, dbVars, mutex, ret>>

\* A thread enters GetOrCreateSlice(slice_id).
Enter_GetOrCreateSlice(t, slice_id) ==
    /\ pc[t] = "idle"
    /\ pc' = [pc EXCEPT ![t] = "lock"]
    /\ loc' = [loc EXCEPT ![t] =
                  Local("GetOrCreateSlice", "", 0, 0, slice_id, <<0, 0>>, Nil, 0, 0, 0)]
    /\ UNCHANGED <<clusterVars, dbVars, mutex, ret>>

\* A thread enters GetOrCreateFragment(frame, slice, fragment_id).
Enter_GetOrCreateFragment(t, frame, slice, fragment_id) ==
    /\ pc[t] = "idle"
    /\ pc' = [pc EXCEPT ![t] = "lock"]
    /\ loc' = [loc EXCEPT ![t] =
                  Local("GetOrCreateFragment", "", frame, slice, fragment_id,
                        <<0, 0>>, Nil, 0, 0, 0)]
    /\ UNCHANGED <<clusterVars, dbVars, mutex, ret>>

\* A get-or-create call that goes on without taking d.mutex.
Lock_NoExclusion(t) ==
    /\ pc[t] = "lock"
    /\ pc' = [pc EXCEPT ![t] = "get"]
    /\ UNCHANGED <<clusterVars, dbVars, mutex, ret, loc>>

\* d.mutex.Lock() of a get-or-create call: waits until the mutex is free.
Lock(t) ==
    /\ pc[t] = "lock"
    /\ mutex = 0
    /\ mutex' = t
    /\ pc' = [pc EXCEPT ![t] = "get"]
    /\ UNCHANGED <<clusterVars, dbVars, ret, loc>>

\* The deferred d.mutex.Unlock() and the return of a get-or-create call.
Unlock_Return(t) ==
    /\ pc[t] = "return"
    /\ mutex' = IF mutex = t THEN 0 ELSE mutex
    /\ pc' = [pc EXCEPT ![t] = "idle"]
    /\ loc' = [loc EXCEPT ![t] = NoLocal]
    /\ UNCHANGED <<clusterVars, dbVars, ret>>

\* GetOrCreateFrame: frame, err := d.getFrame(name); return frame if found.
GetOrCreateFrame_get(t) ==
    /\ pc[t] = "get" /\ loc[t].op = "GetOrCreateFrame"
    /\ IF getFrame(loc[t].name).err = Nil
       THEN /\ loc' = [loc EXCEPT ![t].val = <<getFrame(loc[t].name).val, 0>>]
            /\ pc' = [pc EXCEPT ![t] = "return"]
       ELSE /\ pc' = [pc EXCEPT ![t] = "addFrame"]
            /\ UNCHANGED loc
    /\ UNCHANGED <<clusterVars, dbVars, mutex, ret>>

\* addFrame: d.frames = append(d.frames, &frame), then the loop over d.slices.
addFrame_append(t) ==
    /\ pc[t] = "addFrame"
    /\ frames' = Append(frames, [name |-> loc[t].name])
    /\ loc' = [loc EXCEPT ![t].frame = Len(frames) + 1,
                          ![t].val = <<Len(frames) + 1, 0>>,
                          ![t].k = 1]
    /\ pc' = [pc EXCEPT ![t] = IF Len(slices) = 0 THEN "return" ELSE "fsi_append"]
    /\ UNCHANGED <<clusterVars, slices, frame_slice_intersects, mutex, ret>>

\* GetOrCreateSlice: slice, err := d.getSlice(slice_id); return slice if found.
GetOrCreateSlice_get(t) ==
    /\ pc[t] = "get" /\ loc[t].op = "GetOrCreateSlice"
    /\ IF getSlice(loc[t].id).err = Nil
       THEN /\ loc' = [loc EXCEPT ![t].val = <<getSlice(loc[t].id).val, 0>>]
            /\ pc' = [pc EXCEPT ![t] = "return"]
       ELSE /\ pc' = [pc EXCEPT ![t] = "addSlice"]
            /\ UNCHANGED loc
    /\ UNCHANGED <<clusterVars, dbVars, mutex, ret>>

\* addSlice: d.slices = append(d.slices, &slice), then the loop over d.frames.
addSlice_append(t) ==
    /\ pc[t] = "addSlice"
    /\ slices' = Append(slices, [id |-> loc[t].id])
    /\ loc' = [loc EXCEPT ![t].slice = Len(slices) + 1,
                          ![t].val = <<Len(slices) + 1, 0>>,
                          ![t].k = 1]
    /\ pc' = [pc EXCEPT ![t] = IF Len(frames) = 0 THEN "return" ELSE "fsi_append"]
    /\ UNCHANGED <<clusterVars, frames, frame_slice_intersects, mutex, ret>>

\* The (frame, slice) pair of iteration k of the loop of addFrame / addSlice.
loopFrame(l) == IF l.op = "GetOrCreateFrame" THEN l.frame ELSE l.k
loopSlice(l) == IF l.op = "GetOrCreateFrame" THEN l.k ELSE l.slice
loopLength(l) == IF l.op = "GetOrCreateFrame" THEN Len(slices) ELSE Len(frames)

\* AddFrameSliceIntersect, lines 281-282: the FSI enters the list.
AddFrameSliceIntersect_append(t) ==
    /\ pc[t] = "fsi_append"
    /\ frame_slice_intersects' =
           fsiAppend(frame_slice_intersects, loopFrame(loc[t]), loopSlice(loc[t]))
    /\ loc' = [loc EXCEPT ![t].fsi = Len(frame_slice_intersects) + 1]
    /\ pc' = [pc EXCEPT ![t] = "fsi_ring"]
    /\ UNCHANGED <<clusterVars, frames, slices, mutex, ret>>

\* AddFrameSliceIntersect, lines 283-284: the FSI gets its ring; next iteration.
AddFrameSliceIntersect_ring(t) ==
    /\ pc[t] = "fsi_ring"
    /\ frame_slice_intersects' = fsiNewRing(frame_slice_intersects, loc[t].fsi)
    /\ loc' = [loc EXCEPT ![t].k = @ + 1, ![t].fsi = 0]
    /\ pc' = [pc EXCEPT ![t] = IF loc[t].k + 1 > loopLength(loc[t])
                               THEN "return" ELSE "fsi_append"]
    /\ UNCHANGED <<clusterVars, frames, slices, mutex, ret>>

\* GetOrCreateFragment: fragment, err := d.getFragment(...); return it if found.
GetOrCreateFragment_get(t) ==
    /\ pc[t] = "get" /\ loc[t].op = "GetOrCreateFragment"
    /\ IF getFragment(loc[t].frame, loc[t].slice, loc[t].id).err = Nil
       THEN /\ loc' = [loc EXCEPT ![t].val =
                          getFragment(loc[t].frame, loc[t].slice, loc[t].id).val]
            /\ pc' = [pc EXCEPT ![t] = "return"]
       ELSE /\ pc' = [pc EXCEPT ![t] = "addFragment"]
            /\ UNCHANGED loc
    /\ UNCHANGED <<clusterVars, dbVars, mutex, ret>>

\* addFragment up to the first statement of AddFragment: the FSI is looked up
\* (nil is returned without one) and the new Fragment appended to its fragments.
addFragment_append(t) ==
    /\ pc[t] = "addFragment"
    /\ IF GetFrameSliceIntersect(loc[t].frame, loc[t].slice).err # Nil
       THEN /\ loc' = [loc EXCEPT ![t].val = NilFragment]
            /\ pc' = [pc EXCEPT ![t] = "return"]
            /\ UNCHANGED frame_slice_intersects
       ELSE LET x == GetFrameSliceIntersect(loc[t].frame, loc[t].slice).val IN
            /\ frame_slice_intersects' =
                   [frame_slice_intersects EXCEPT
                       ![x] = appendFragment(@, [id |-> loc[t].id, process |-> 0])]
            /\ loc' = [loc EXCEPT
                          ![t].fsi = x,
                          ![t].val = <<x, Len(frame_slice_intersects[x].fragments) + 1>>]
            /\ pc' = [pc EXCEPT ![t] = "ring_add"]
    /\ UNCHANGED <<clusterVars, frames, slices, mutex, ret>>

\* AddFragment, second statement: the hex id enters the ring of the FSI.
AddFragment_ring(t) ==
    /\ pc[t] = "ring_add"
    /\ frame_slice_intersects' =
           [frame_slice_intersects EXCEPT
               ![loc[t].fsi] = ringAddFragment(@, [id |-> loc[t].id, process |-> 0])]
    /\ pc' = [pc EXCEPT ![t] = "return"]
    /\ UNCHANGED <<clusterVars, frames, slices, mutex, ret, loc>>

\* A thread enters GetFragmentForBitmap(slice, bitmap).
Enter_GetFragmentForBitmap(t, slice, bitmap) ==
    /\ pc[t] = "idle"
    /\ pc' = [pc EXCEPT ![t] = "getFrame"]
    /\ loc' = [loc EXCEPT ![t] =
                  Local("GetFragmentForBitmap", bitmap.FrameType, 0, slice,
                        bitmap.Id, <<0, 0>>, Nil, 0, 0, 0)]
    /\ UNCHANGED <<clusterVars, dbVars, mutex, ret>>

\* A thread enters GetFragmentForFrameSlice(frame, slice).
Enter_GetFragmentForFrameSlice(t, frame, slice) ==
    /\ pc[t] = "idle"
    /\ pc' = [pc EXCEPT ![t] = "getFSI"]
    /\ loc' = [loc EXCEPT ![t] =
                  Local("GetFragmentForFrameSlice", "", frame, slice, 0,
                        <<0, 0>>, Nil, 0, 0, 0)]
    /\ UNCHANGED <<clusterVars, dbVars, mutex, ret>>

\* A thread enters GetFrameSliceIntersect(frame, slice).
Enter_GetFrameSliceIntersect(t, frame, slice) ==
    /\ pc[t] = "idle"
    /\ pc' = [pc EXCEPT ![t] = "getFSI"]
    /\ loc' = [loc EXCEPT ![t] =
                  Local("GetFrameSliceIntersect", "", frame, slice, 0,
                        <<0, 0>>, Nil, 0, 0, 0)]
    /\ UNCHANGED <<clusterVars, dbVars, mutex, ret>>

\* GetFragmentForBitmap: frame, err := d.getFrame(bitmap.FrameType)
Lookup_getFrame(t) ==
    /\ pc[t] = "getFrame"
    /\ IF getFrame(loc[t].name).err # Nil
       THEN /\ loc' = [loc EXCEPT ![t].err = getFrame(loc[t].name).err]
            /\ pc' = [pc EXCEPT ![t] = "done"]
       ELSE /\ loc' = [loc EXCEPT ![t].frame = getFrame(loc[t].name).val]
            /\ pc' = [pc EXCEPT ![t] = "getFSI"]
    /\ UNCHANGED <<clusterVars, dbVars, mutex, ret>>

\* fsi, err := d.GetFrameSliceIntersect(frame, slice)
Lookup_getFSI(t) ==
    /\ pc[t] = "getFSI"
    /\ IF GetFrameSliceIntersect(loc[t].frame, loc[t].slice).err # Nil
       THEN /\ loc' = [loc EXCEPT ![t].err =
                          GetFrameSliceIntersect(loc[t].frame, loc[t].slice).err]
            /\ pc' = [pc EXCEPT ![t] = "done"]
       ELSE /\ loc' = [loc EXCEPT
                          ![t].fsi = GetFrameSliceIntersect(loc[t].frame, loc[t].slice).val,
                          ![t].val = IF loc[t].op = "GetFrameSliceIntersect"
                                     THEN <<GetFrameSliceIntersect(loc[t].frame,
                                                                   loc[t].slice).val, 0>>
                                     ELSE @]
            /\ pc' = [pc EXCEPT ![t] = IF loc[t].op = "GetFrameSliceIntersect"
                                       THEN "done" ELSE "ringGet"]
    /\ UNCHANGED <<clusterVars, dbVars, mutex, ret>>

\* The key the lookup hands to the ring: the bitmap id in decimal, or "0".
ringKey(l) == IF l.op = "GetFragmentForBitmap" THEN Itoa(l.id) ELSE Itoa(0)

\* frag_id_s, err := fsi.hashring.Get(key); frag_id := util.Hex_to_SUUID(frag_id_s)
Lookup_ringGet(t) ==
    /\ pc[t] = "ringGet"
    /\ LET ring == frame_slice_intersects[loc[t].fsi].hashring IN
       IF ~ring.alloc
       THEN /\ loc' = [loc EXCEPT ![t].err = NilDereference]
            /\ pc' = [pc EXCEPT ![t] = "done"]
       ELSE IF consistentGet(ring, ringKey(loc[t])).err # Nil
       THEN /\ loc' = [loc EXCEPT ![t].err = consistentGet(ring, ringKey(loc[t])).err]
            /\ pc' = [pc EXCEPT ![t] = "done"]
       ELSE /\ loc' = [loc EXCEPT ![t].frag_id =
                          Hex_to_SUUID(consistentGet(ring, ringKey(loc[t])).val)]
            /\ pc' = [pc EXCEPT ![t] = "getFragment"]
    /\ UNCHANGED <<clusterVars, dbVars, mutex, ret>>

\* return fsi.GetFragment(frag_id)
Lookup_getFragment(t) ==
    /\ pc[t] = "getFragment"
    /\ LET r == GetFragment(frame_slice_intersects[loc[t].fsi], loc[t].frag_id) IN
       loc' = [loc EXCEPT ![t].val = IF r.err = Nil THEN <<loc[t].fsi, r.val>>
                                      ELSE NilFragment,
                          ![t].err = r.err]
    /\ pc' = [pc EXCEPT ![t] = "done"]
    /\ UNCHANGED <<clusterVars, dbVars, mutex, ret>>

\* The lookup hands its result to the caller.
Lookup_return(t) ==
    /\ pc[t] = "done"
    /\ pc' = [pc EXCEPT ![t] = "idle"]
    /\ loc' = [loc EXCEPT ![t] = NoLocal]
    /\ UNCHANGED <<clusterVars, dbVars, mutex, ret>>

InitConc ==
    /\ databases = {}
    /\ dbObjects = <<>>
    /\ cmutex = 0
    /\ creturned = {}
    /\ frames = <<>>
    /\ slices = <<>>
    /\ frame_slice_intersects = <<>>
    /\ mutex = 0
    /\ ret = NoCall
    /\ pc = [t \in DbThreads |-> "idle"]
    /\ loc = [t \in DbThreads |-> NoLocal]

\* Inputs of the concurrent model.
ConcFrameNames == {n \in FrameNames : IsValidFrame(n)}
ConcSliceIds == {0}
ConcFragmentIds == {10, 26}
ConcBitmaps == [Id : {0}, FrameType : ConcFrameNames, Filter : {0}]

ConcNext ==
    \E t \in DbThreads :
        \/ \E name \in ConcFrameNames : Enter_GetOrCreateFrame(t, name)
        \/ \E id \in ConcSliceIds : Enter_GetOrCreateSlice(t, id)
        \/ \E f \in KnownFrames, s \in KnownSlices, id \in ConcFragmentIds :
               Enter_GetOrCreateFragment(t, f, s, id)
        \/ Lock(t)
        \/ GetOrCreateFrame_get(t)
        \/ addFrame_append(t)
        \/ GetOrCreateSlice_get(t)
        \/ addSlice_append(t)
        \/ AddFrameSliceIntersect_append(t)
        \/ AddFrameSliceIntersect_ring(t)
        \/ GetOrCreateFragment_get(t)
        \/ addFragment_append(t)
        \/ AddFragment_ring(t)
        \/ Unlock_Return(t)
        \/ \E s \in KnownSlices, b \in ConcBitmaps : Enter_GetFragmentForBitmap(t, s, b)
        \/ \E f \in KnownFrames, s \in KnownSlices : Enter_GetFragmentForFrameSlice(t, f, s)
        \/ \E f \in KnownFrames, s \in KnownSlices : Enter_GetFrameSliceIntersect(t, f, s)
        \/ Lookup_getFrame(t)
        \/ Lookup_getFSI(t)
        \/ Lookup_ringGet(t)
        \/ Lookup_getFragment(t)
        \/ Lookup_return(t)

\* Threads calling into one Database concurrently.
SpecConc == InitConc /\ [][ConcNext]_vars

\* ------------------------------------------------------------------ claims

\* C1: after every GetOrCreateFrame / GetOrCreateSlice call, each Frame f and
\* Slice s of the Database has exactly one FrameSliceIntersect with
\* (frame, slice) = (f, s), and GetFrameSliceIntersect(f, s) succeeds and
\* returns that one.
C1_CrossProduct ==
    /\ \A f \in FrameIdx, s \in SliceIdx :
          /\ Cardinality({i \in FsiIdx : /\ frame_slice_intersects[i].frame = f
                                         /\ frame_slice_intersects[i].slice = s}) = 1
          /\ GetFrameSliceIntersect(f, s).err = Nil
          /\ frame_slice_intersects[GetFrameSliceIntersect(f, s).val].frame = f
          /\ frame_slice_intersects[GetFrameSliceIntersect(f, s).val].slice = s
    /\ (ret.op = "GetFrameSliceIntersect" /\ ret.frame \in FrameIdx)
          => /\ ret.err = Nil
             /\ frame_slice_intersects[ret.val[1]].frame = ret.frame
             /\ frame_slice_intersects[ret.val[1]].slice = ret.slice

\* Two frames and two slices, and a lookup of the last pair returned its FSI.
C1_Witness ==
    /\ Len(frames) = 2 /\ Len(slices) = 2 /\ Len(frame_slice_intersects) = 4
    /\ ret.op = "GetFrameSliceIntersect" /\ ret.frame = 2 /\ ret.slice = 2
    /\ ret.err = Nil

\* C4: GetOrCreateFrame with a name outside the allow-list fails with
\* InvalidFrame, returns no Frame and leaves d.frames and the FSI list as
\* they were.
C4_InvalidFrameRejected ==
    [][(ret'.op = "GetOrCreateFrame" /\ ~IsValidFrame(ret'.name))
          => /\ ret'.err = InvalidFrameError
             /\ ret'.val = <<0, 0>>
             /\ UNCHANGED <<frames, frame_slice_intersects>>]_vars

\* C5: no two Frames of the Database have the same name and every Frame's
\* name is in the allow-list.
C5_FrameNamesUniqueAndValid ==
    /\ \A i, j \in FrameIdx : frames[i].name = frames[j].name => i = j
    /\ \A i \in FrameIdx : IsValidFrame(frames[i].name)

\* Hex identifiers of the fragments of an FSI.
fragmentHexIds(fsi) ==
    {SUUID_to_Hex(fsi.fragments[i].id) : i \in 1..Len(fsi.fragments)}

\* C8: after completed calls, the members of every FSI's ring are exactly the
\* hex-encoded identifiers of the Fragments in its fragment set, and every
\* ring position is owned by one of them.
C8_RingMirrorsFragments ==
    \A x \in FsiIdx :
        /\ frame_slice_intersects[x].hashring.members
               = fragmentHexIds(frame_slice_intersects[x])
        /\ {e[2] : e \in frame_slice_intersects[x].hashring.circle}
               \subseteq fragmentHexIds(frame_slice_intersects[x])
        /\ (frame_slice_intersects[x].fragments = <<>>)
               <=> (frame_slice_intersects[x].hashring.circle = {})

\* An FSI holds two fragments, the second just added by GetOrCreateFragment.
C8_Witness ==
    /\ ret.op = "GetOrCreateFragment" /\ ret.val # NilFragment /\ ret.val[2] = 2
    /\ Len(frame_slice_intersects[ret.val[1]].fragments) = 2
    /\ Cardinality(frame_slice_intersects[ret.val[1]].hashring.members) = 2

\* The call ret records was GetOrCreateFragment on a registered Frame and Slice.
registeredFragmentCall(r) ==
    r.op = "GetOrCreateFragment" /\ r.frame \in FrameIdx /\ r.slice \in SliceIdx

\* C9: GetOrCreateFragment(frame, slice, id) on a registered Frame and Slice
\* returns a Fragment with that id that belongs to FSI(frame, slice); a call
\* for an id the FSI already holds returns the Fragment it holds and changes
\* neither fragment sets nor rings; no FSI holds two Fragments with one id.
C9_GetOrCreateFragment ==
    /\ [](registeredFragmentCall(ret)
            => /\ ret.val # NilFragment
               /\ ret.val[1] = GetFrameSliceIntersect(ret.frame, ret.slice).val
               /\ ret.val[2] \in 1..Len(frame_slice_intersects[ret.val[1]].fragments)
               /\ frame_slice_intersects[ret.val[1]].fragments[ret.val[2]].id = ret.id)
    /\ [](\A x \in FsiIdx :
            \A i, j \in 1..Len(frame_slice_intersects[x].fragments) :
                frame_slice_intersects[x].fragments[i].id
                    = frame_slice_intersects[x].fragments[j].id => i = j)
    /\ [][(/\ ret'.op = "GetOrCreateFragment"
           /\ getFragment(ret'.frame, ret'.slice, ret'.id).err = Nil)
             => /\ UNCHANGED dbVars
                /\ ret'.val = getFragment(ret'.frame, ret'.slice, ret'.id).val]_vars

\* A call for an id the FSI already holds, made after the FSI got a second
\* fragment, returned the first one.
C9_Witness ==
    /\ registeredFragmentCall(ret)
    /\ ret.val[2] = 1
    /\ Len(frame_slice_intersects[ret.val[1]].fragments) = 2

\* The call ret records was GetFragmentForBitmap.
isBitmapLookup(r) == r.op = "GetFragmentForBitmap"

\* Identifier of the Fragment a lookup returned, its error when it failed.
lookupOutcome(r) ==
    IF r.err = Nil
    THEN <<frame_slice_intersects[r.val[1]].fragments[r.val[2]].id, Nil>>
    ELSE <<0, r.err>>

\* For the Database as it is, lookups with the same slice, bitmap id and frame
\* type agree whatever the filter, and a lookup changes nothing.
C10_Repeatable ==
    /\ [](isBitmapLookup(ret) =>
            \A flt \in Filters :
                GetFragmentForBitmap(ret.slice,
                    [Id |-> ret.id, FrameType |-> ret.name, Filter |-> flt])
                  = [val |-> ret.val, err |-> ret.err])
    /\ [][(/\ isBitmapLookup(ret) /\ isBitmapLookup(ret')
           /\ ret'.slice = ret.slice /\ ret'.id = ret.id /\ ret'.name = ret.name)
             => (ret'.val = ret.val /\ ret'.err = ret.err)]_vars
    /\ [][isBitmapLookup(ret') => UNCHANGED dbVars]_vars

\* Two FSIs whose rings have the same members route every bitmap to the
\* Fragment with the same identifier: the order of the additions is immaterial.
C10_OrderIndependent ==
    \A x, y \in FsiIdx :
        (/\ frame_slice_intersects[x].hashring.members
               = frame_slice_intersects[y].hashring.members
         /\ frame_slice_intersects[x].frame = frame_slice_intersects[y].frame)
        => \A b \in BitmapIds :
              consistentGet(frame_slice_intersects[x].hashring, Itoa(b))
                = consistentGet(frame_slice_intersects[y].hashring, Itoa(b))

GetOrCreateDatabase(name) ==
    /\ cmutex = 0
    /\ IF getDatabase(name).err = Nil
       THEN /\ UNCHANGED <<databases, dbObjects>>
            /\ creturned' = creturned \cup {<<name, getDatabase(name).val>>}
            /\ ret' = Call("GetOrCreateDatabase", name, 0, 0, 0, 0,
                           <<getDatabase(name).val, 0>>, Nil)
       ELSE /\ dbObjects' = Append(dbObjects, [Name |-> name])
            /\ databases' = {e \in databases : e[1] # name}
                                \cup {<<name, Len(dbObjects) + 1>>}
            /\ creturned' = creturned \cup {<<name, Len(dbObjects) + 1>>}
            /\ ret' = Call("GetOrCreateDatabase", name, 0, 0, 0, 0,
                           <<Len(dbObjects) + 1, 0>>, Nil)
    /\ UNCHANGED <<cmutex, dbVars, mutex, pc, loc>>

\* Slice ids that the callers of this model pass.
GrowSliceIds == {0}

\* Sequential get-or-create calls on the Cluster and on one of its Databases.
GrowNext ==
    \/ \E name \in DatabaseNames : GetOrCreateDatabase(name)
    \/ \E name \in FrameNames : GetOrCreateFrame(name)
    \/ \E id \in GrowSliceIds : GetOrCreateSlice(id)
    \/ \E f \in FrameIdx, s \in SlicePtrs, id \in FragmentIds :
           fragmentRoom(MaxFragments, f, s, id) /\ GetOrCreateFragment(f, s, id)

SpecGrow == Init /\ [][GrowNext]_vars

\* s is a prefix of t.
isPrefix(s, t) == Len(s) <= Len(t) /\ \A i \in 1..Len(s) : t[i] = s[i]

\* C15: nothing is ever removed. Across every step the Cluster's databases,
\* the Database's Frames, Slices and FSIs and each FSI's Fragments and ring
\* members only grow or stay the same, every object keeps its key, and a
\* lookup that found an instance for a key keeps finding that instance.
C15_NeverRemoved ==
    [][/\ databases \subseteq databases'
       /\ isPrefix(dbObjects, dbObjects')
       /\ creturned \subseteq databases'
       /\ isPrefix(frames, frames')
       /\ isPrefix(slices, slices')
       /\ Len(frame_slice_intersects) <= Len(frame_slice_intersects')
       /\ \A x \in FsiIdx :
             /\ frame_slice_intersects'[x].frame = frame_slice_intersects[x].frame
             /\ frame_slice_intersects'[x].slice = frame_slice_intersects[x].slice
             /\ \A i \in 1..Len(frame_slice_intersects[x].fragments) :
                   /\ i <= Len(frame_slice_intersects'[x].fragments)
                   /\ frame_slice_intersects'[x].fragments[i].id
                          = frame_slice_intersects[x].fragments[i].id
             /\ frame_slice_intersects[x].hashring.members
                   \subseteq frame_slice_intersects'[x].hashring.members
       /\ \A name \in DatabaseNames :
             getDatabase(name).err = Nil => getDatabase(name)' = getDatabase(name)
       /\ \A name \in FrameNames :
             getFrame(name).err = Nil => getFrame(name)' = getFrame(name)
       /\ \A id \in SliceIds :
             getSlice(id).err = Nil => getSlice(id)' = getSlice(id)
       /\ \A f \in FrameIdx, sl \in SliceIdx :
             /\ GetFrameSliceIntersect(f, sl).err = Nil
                   => GetFrameSliceIntersect(f, sl)' = GetFrameSliceIntersect(f, sl)
             /\ \A id \in FragmentIds :
                   getFragment(f, sl, id).err = Nil
                   => getFragment(f, sl, id)' = getFragment(f, sl, id)]_vars

\* With two Databases registered and an FSI holding two Fragments,
\* GetOrCreateDatabase returned the Database registered first.
C15_Witness ==
    /\ ret.op = "GetOrCreateDatabase" /\ ret.val[1] = 1
    /\ Len(dbObjects) = 2 /\ Cardinality(databases) = 2
    /\ Len(frames) = 2 /\ Len(slices) > 0
    /\ \E x \in FsiIdx : Len(frame_slice_intersects[x].fragments) = 2

\* Database objects allocated with the given name.
instancesOf(name) == {i \in 1..Len(dbObjects) : dbObjects[i].Name = name}

\* C2: however the threads calling GetOrCreateDatabase with one name
\* interleave, one Database instance is created for the name, every caller
\* receives that instance, and the registry maps the name to it.
C2_OneDatabasePerName ==
    /\ \A name \in DatabaseNames : Cardinality(instancesOf(name)) <= 1
    /\ \A r \in creturned :
          /\ instancesOf(r[1]) = {r[2]}
          /\ r \in databases
    /\ \A r1, r2 \in creturned : r1[1] = r2[1] => r1[2] = r2[2]
    /\ \A e1, e2 \in databases : e1[1] = e2[1] => e1[2] = e2[2]

\* A second thread returns the instance of "x" that a caller already
\* received, while a third waits for the Cluster lock with the same name.
C2_Witness ==
    \E t1, t2 \in ClusterThreads :
        /\ t1 # t2
        /\ pc[t1] = "c_return" /\ loc[t1].name = "x"
        /\ <<"x", loc[t1].val[1]>> \in creturned
        /\ pc[t2] = "c_lock" /\ loc[t2].name = "x"

\* C3: concurrent GetOrCreateFrame calls with one allow-listed name,
\* GetOrCreateSlice calls with one id and GetOrCreateFragment calls with one
\* (frame, slice, id) create one instance under every interleaving and each
\* returns that instance, fully created: never a duplicate.
C3_SingleCreation ==
    /\ \A i, j \in FrameIdx :
          (frames[i].name = frames[j].name /\ IsValidFrame(frames[i].name)) => i = j
    /\ \A i, j \in SliceIdx : slices[i].id = slices[j].id => i = j
    /\ \A x \in FsiIdx :
          \A i, j \in 1..Len(frame_slice_intersects[x].fragments) :
              frame_slice_intersects[x].fragments[i].id
                  = frame_slice_intersects[x].fragments[j].id => i = j
    /\ \A t \in DbThreads : pc[t] = "return" =>
          /\ (loc[t].op = "GetOrCreateFrame" /\ IsValidFrame(loc[t].name)) =>
                /\ loc[t].val[1] \in FrameIdx
                /\ frames[loc[t].val[1]].name = loc[t].name
                /\ \A s \in SliceIdx :
                      /\ GetFrameSliceIntersect(loc[t].val[1], s).err = Nil
                      /\ frame_slice_intersects[
                             GetFrameSliceIntersect(loc[t].val[1], s).val].hashring.alloc
          /\ loc[t].op = "GetOrCreateSlice" =>
                /\ loc[t].val[1] \in SliceIdx
                /\ slices[loc[t].val[1]].id = loc[t].id
                /\ \A f \in FrameIdx :
                      /\ GetFrameSliceIntersect(f, loc[t].val[1]).err = Nil
                      /\ frame_slice_intersects[
                             GetFrameSliceIntersect(f, loc[t].val[1]).val].hashring.alloc
          /\ loc[t].op = "GetOrCreateFragment" =>
                /\ loc[t].val # NilFragment
                /\ loc[t].val[1] = GetFrameSliceIntersect(loc[t].frame, loc[t].slice).val
                /\ loc[t].val[2] \in
                       1..Len(frame_slice_intersects[loc[t].val[1]].fragments)
                /\ frame_slice_intersects[loc[t].val[1]].fragments[loc[t].val[2]].id
                       = loc[t].id
                /\ SUUID_to_Hex(loc[t].id)
                       \in frame_slice_intersects[loc[t].val[1]].hashring.members

\* A GetOrCreateFragment call returns the Fragment another call created, while
\* a further call with the same arguments waits for d.mutex.
C3_Witness ==
    \E t1, t2 \in DbThreads :
        /\ t1 # t2
        /\ pc[t1] = "return" /\ loc[t1].op = "GetOrCreateFragment"
        /\ loc[t1].fsi = 0 /\ loc[t1].val # NilFragment
        /\ pc[t2] = "lock" /\ loc[t2].op = "GetOrCreateFragment"
        /\ loc[t2].frame = loc[t1].frame /\ loc[t2].slice = loc[t1].slice
        /\ loc[t2].id = loc[t1].id

\* C6: ring lookups and ring membership changes on one FSI are serialized: no
\* GetFragmentForBitmap / GetFragmentForFrameSlice reads the ring or the
\* fragment set of an FSI while a GetOrCreateFragment call is between its
\* append to that FSI's fragment set and its addition to the ring.
C6_RingAccessSerialized ==
    [][\A t \in DbThreads :
          (pc[t] \in {"ringGet", "getFragment"} /\ pc'[t] # pc[t])
             => ~\E w \in DbThreads \ {t} :
                    /\ pc[w] = "ring_add"
                    /\ loc[w].fsi = loc[t].fsi]_vars

\* C7: no lookup ends with FrameSliceIntersectDoesNotExistError for a Frame
\* and a Slice that are both in the Database, also when it runs concurrently
\* with GetOrCreateFrame or GetOrCreateSlice.
C7_NoMissingIntersect ==
    \A t \in DbThreads :
        (pc[t] = "done" /\ loc[t].err = FrameSliceIntersectDoesNotExistError)
            => ~(loc[t].frame \in FrameIdx /\ loc[t].slice \in SliceIdx)

registeredFrameName(name) == \E i \in FrameIdx : frames[i].name = name

\* C12: GetFragmentForBitmap with a frame type that was never registered in
\* the Database fails with InvalidFrame when the name is not allow-listed and
\* with FrameDoesNotExist when it is, returns no Fragment, and leaves frames,
\* slices, FSIs, fragment sets and rings unchanged.
C12_MissingFrame ==
    [][(isBitmapLookup(ret') /\ ~registeredFrameName(ret'.name))
          => /\ ret'.err = IF IsValidFrame(ret'.name)
                           THEN FrameDoesNotExistError ELSE InvalidFrameError
             /\ ret'.val = NilFragment
             /\ UNCHANGED dbVars]_vars

\* A lookup with the allow-listed, unregistered frame type failed with
\* FrameDoesNotExist on a Database that has a Slice.
C12_Witness ==
    /\ isBitmapLookup(ret) /\ ret.name = "default" /\ ~registeredFrameName("default")
    /\ ret.err = FrameDoesNotExistError /\ ret.val = NilFragment
    /\ Len(slices) > 0

\* C13: a Fragment starts without a Process, and once SetProcess assigned
\* one, no later call (a further SetProcess included) changes it or makes the
\* Fragment unassigned again.
C13_OneShotProcess ==
    [][\A x \in FsiIdx :
          /\ \A i \in 1..Len(frame_slice_intersects[x].fragments) :
                frame_slice_intersects[x].fragments[i].process # 0
                => frame_slice_intersects'[x].fragments[i].process
                       = frame_slice_intersects[x].fragments[i].process
          /\ \A i \in (Len(frame_slice_intersects[x].fragments) + 1)
                          ..Len(frame_slice_intersects'[x].fragments) :
                frame_slice_intersects'[x].fragments[i].process = 0]_vars

\* C14: every lookup returns a value or one of the typed failures and never
\* panics, GetProcessId and GetLocation on a Fragment without a Process and on
\* the Fragment value GetOrCreateFragment returns without an FSI included.
C14_LookupsNeverCrash ==
    ret.op \in {"GetProcessId", "GetLocation"} => ret.err # NilDereference

\* The slice id of a profile id by the definition of floor: the q with
\* q * SLICE_WIDTH <= profile_id < (q + 1) * SLICE_WIDTH.
floorSliceId(profile_id) ==
    CHOOSE q \in 0..profile_id :
        q * SLICE_WIDTH <= profile_id /\ profile_id < (q + 1) * SLICE_WIDTH

\* C16: GetSliceForProfile(itemId) returns the registered Slice whose id is
\* floor(itemId / SLICE_WIDTH), with SLICE_WIDTH = 1048576 (ids 0..1048575 are
\* slice 0, 1048576 is slice 1); without such a Slice it fails with
\* SliceDoesNotExist, and it creates neither a Slice nor an FSI.
C16_SliceForProfile ==
    /\ [](/\ SLICE_WIDTH = 1048576
          /\ GetSlice(0) = 0 /\ GetSlice(1048575) = 0 /\ GetSlice(1048576) = 1)
    /\ [](ret.op = "GetSliceForProfile" =>
            IF \E i \in SliceIdx : slices[i].id = floorSliceId(ret.id)
            THEN /\ ret.err = Nil
                 /\ ret.val[1] \in SliceIdx
                 /\ slices[ret.val[1]].id = floorSliceId(ret.id)
            ELSE /\ ret.err = SliceDoesNotExistError
                 /\ ret.val = <<0, 0>>)
    /\ [][ret'.op = "GetSliceForProfile" => UNCHANGED dbVars]_vars

\* The first profile id of slice 1 was looked up and gave the Slice with id 1,
\* registered before the Slice with id 0, in a Database with a Frame.
C16_Witness ==
    /\ ret.op = "GetSliceForProfile" /\ ret.id = 1048576
    /\ ret.err = Nil /\ ret.val[1] = 1 /\ slices[1].id = 1
    /\ Len(slices) = 2 /\ Len(frames) > 0

\* C17: NumSlices fails with the empty-Database error exactly when no Slice
\* is registered; otherwise it returns the number of distinct Slice ids
\* registered so far, which GetOrCreateSlice with a registered id leaves as
\* it is.
C17_NumSlices ==
    /\ [](ret.op = "NumSlices" =>
            /\ (ret.err = DatabaseIsEmptyError) <=> (Len(slices) = 0)
            /\ ret.err \in {Nil, DatabaseIsEmptyError}
            /\ ret.err = Nil =>
                  ret.val[1] = Cardinality({slices[i].id : i \in SliceIdx}))
    /\ []((NumSlices.err = DatabaseIsEmptyError) <=> (slices = <<>>))
    /\ []((NumSlices.err = Nil) =>
            NumSlices.val = Cardinality({slices[i].id : i \in SliceIdx}))
    /\ [][(ret'.op = "GetOrCreateSlice" /\ getSlice(ret'.id).err = Nil)
            => NumSlices' = NumSlices]_vars

\* NumSlices returned 2 in a Database with two Slices and a Frame.
C17_Witness ==
    /\ ret.op = "NumSlices" /\ ret.err = Nil /\ ret.val[1] = 2
    /\ Len(slices) = 2 /\ Len(frames) > 0

\* The lookups that go through the ring of an FSI.
isRingLookup(l) == l.op \in {"GetFragmentForBitmap", "GetFragmentForFrameSlice"}

\* No ring lookup ends with FragmentDoesNotExistError: the id decoded from the
\* ring member is the id of a Fragment the FSI already holds.
C18_MemberIsPresent ==
    \A t \in DbThreads :
        isRingLookup(loc[t]) =>
            /\ pc[t] = "getFragment" =>
                  \E i \in 1..Len(frame_slice_intersects[loc[t].fsi].fragments) :
                      frame_slice_intersects[loc[t].fsi].fragments[i].id = loc[t].frag_id
            /\ pc[t] = "done" => loc[t].err # FragmentDoesNotExistError

\* A ring lookup that reaches an FSI with no Fragment ends with the ring's
\* empty-circle error.
C18_EmptyRingError ==
    [][\A t \in DbThreads :
          (/\ pc[t] = "ringGet" /\ pc'[t] # "ringGet"
           /\ frame_slice_intersects[loc[t].fsi].fragments = <<>>)
          => (pc'[t] = "done" /\ loc'[t].err = ErrEmptyCircle)]_vars

\* C18: GetFragmentForBitmap and GetFragmentForFrameSlice never fail with
\* FragmentDoesNotExistError, in every reachable state, the intermediate
\* states of a concurrent GetOrCreateFragment included (the Fragment is
\* appended before its id enters the ring); on an FSI with no Fragment the
\* lookup fails with the ring's empty-circle error instead.
C18_NoFragmentNotFound == []C18_MemberIsPresent /\ C18_EmptyRingError

\* An FSI as AddFrameSliceIntersect leaves it: no Fragment, an empty ring.
isFreshIntersect(fsi) ==
    /\ fsi.fragments = <<>>
    /\ fsi.hashring.alloc
    /\ fsi.hashring.members = {} /\ fsi.hashring.circle = {}

\* The bitmaps whose frame type can be routed, one filter value each.
routedBitmaps == {b \in Bitmaps : IsValidFrame(b.FrameType) /\ b.Filter = 0}

\* C19: registering a new Frame or a new Slice leaves every existing FSI as
\* it was and each FSI it creates starts with no Fragment and an empty ring;
\* GetOrCreateFragment on FSI(f, s) changes no other FSI; in both cases the
\* GetFragmentForBitmap results of the other (frame, slice) pairs stay as
\* they were.
C19_OtherIntersectsUntouched ==
    [][/\ (Len(frames') > Len(frames) \/ Len(slices') > Len(slices))
          => /\ \A x \in FsiIdx :
                   frame_slice_intersects'[x] = frame_slice_intersects[x]
             /\ \A x \in (Len(frame_slice_intersects) + 1)
                             ..Len(frame_slice_intersects') :
                   isFreshIntersect(frame_slice_intersects'[x])
             /\ \A sl \in SliceIdx, b \in routedBitmaps :
                   getFrame(b.FrameType).err = Nil
                   => GetFragmentForBitmapIn(frames', frame_slice_intersects', sl, b)
                          = GetFragmentForBitmap(sl, b)
       /\ ret'.op = "GetOrCreateFragment"
          => /\ Len(frame_slice_intersects') = Len(frame_slice_intersects)
             /\ \A x \in FsiIdx :
                   x # GetFrameSliceIntersect(ret'.frame, ret'.slice).val
                   => frame_slice_intersects'[x] = frame_slice_intersects[x]
             /\ \A sl \in SliceIdx, b \in routedBitmaps :
                   ~(sl = ret'.slice /\ getFrame(b.FrameType).val = ret'.frame)
                   => GetFragmentForBitmapIn(frames', frame_slice_intersects', sl, b)
                          = GetFragmentForBitmap(sl, b)]_vars

\* GetOrCreateFrame registered a second Frame in a Database whose first FSI
\* holds two Fragments; the FSI of the new Frame is fresh.
C19_Witness ==
    /\ ret.op = "GetOrCreateFrame" /\ ret.val[1] = 2 /\ Len(frames) = 2
    /\ Len(frame_slice_intersects) = 2
    /\ Len(frame_slice_intersects[1].fragments) = 2
    /\ frame_slice_intersects[2].frame = 2
    /\ isFreshIntersect(frame_slice_intersects[2])

\* C20: adding one Fragment to an FSI that already holds N >= 1 Fragments
\* does not remap all keys: for every bitmap id, GetFragmentForBitmap after
\* the addition returns the same Fragment as before or the new Fragment,
\* never a different Fragment that was there before.
C20_BoundedRemap ==
    [][(/\ ret'.op = "GetOrCreateFragment"
        /\ frame_slice_intersects' # frame_slice_intersects
        /\ frame_slice_intersects[ret'.val[1]].fragments # <<>>)
       => \A b \in Bitmaps :
             getFrame(b.FrameType).val = ret'.frame
             => LET before == GetFragmentForBitmap(ret'.slice, b)
                    after == GetFragmentForBitmapIn(frames', frame_slice_intersects',
                                                    ret'.slice, b)
                IN  /\ before.err = Nil /\ after.err = Nil
                    /\ after.val = before.val \/ after.val = ret'.val]_vars

\* A third Fragment was added to an FSI; one bitmap id is routed to it and
\* another to a Fragment that was there before.
C20_Witness ==
    /\ ret.op = "GetOrCreateFragment" /\ ret.val[2] = 3
    /\ Len(frame_slice_intersects[ret.val[1]].fragments) = 3
    /\ \E b1, b2 \in routedBitmaps :
          /\ GetFragmentForBitmap(ret.slice, b1).val = ret.val
          /\ GetFragmentForBitmap(ret.slice, b2).err = Nil
          /\ GetFragmentForBitmap(ret.slice, b2).val # ret.val

====
